---- MODULE Spec2Model ----
(***************************************************************************)
(* Malik Dairy milk tracker (src/new_milk/milk_tracker.py).                *)
(*                                                                         *)
(* The SQLite file milk_data.db outlives every run of main(): it is the    *)
(* persistent state.  Streamlit re-runs main() from the top on every       *)
(* interaction, so one run of main() is one action.  The remaining         *)
(* variables hold what the last run did and showed.                        *)
(*                                                                         *)
(* Text is a sequence of code points.  REAL values are the exact rationals *)
(* they stand for: quantities and prices are naturals, a quotient is a     *)
(* reduced pair <<numerator, denominator>>.                                *)
(***************************************************************************)
EXTENDS Integers, Sequences, FiniteSets, TLC

VARIABLES
    tableExists,      \* milk_data.db holds the table "entries"
    entries,          \* committed rows of "entries", in the order they were inserted
    sqlite_sequence,  \* AUTOINCREMENT's record of the largest rowid ever assigned
    password,         \* the password entered in the last run
    choice,           \* the view the last run selected, "none" when the gate stopped it
    calls,            \* MilkDatabase methods the last run called, in order
    entry,            \* <<e>> when the last run built and saved the MilkEntry e, else <<>>
    ret,              \* <<v>> when insert_entry returned v to the last run, else <<>>
    query,            \* <<a>> when the last run fetched with the argument a, else <<>>
    result,           \* daily_data / monthly_data of the last run (<<>> when it fetched nothing)
    totals,           \* the aggregate variables the last run assigned, by name
    pdf,              \* <<p>> when the last run called generate_pdf, else <<>>
    message           \* st.warning / st.info / st.success text of the last run

vars == <<tableExists, entries, sqlite_sequence, password, choice, calls,
          entry, ret, query, result, totals, pdf, message>>

\* Python's None, as insert_entry returns it
PyNone == [type |-> "NoneType"]
PyInt(n) == [type |-> "int", value |-> n]

(***************************************************************************)
(* Bounds and input domains.                                               *)
(***************************************************************************)
MaxEntries == 2

Passwords == {"obob", "wrong"}

\* datetime.date values st.date_input can hand over
Dates == { [y |-> 2024, m |-> 1, d |-> 31],
           [y |-> 2024, m |-> 2, d |-> 1],
           [y |-> 2024, m |-> 2, d |-> 29] }
EndDates == { [y |-> 2024, m |-> 3, d |-> 1] }

\* "Ali"
Names == { <<65, 108, 105>> }

MorningMounds == {0, 2}
EveningMounds == {0, 4}
MorningRates == {10}
EveningRates == {20}
MorningSairs == {1}
EveningSairs == {3}
Rents == {5}
Commissions == {6}
Bandis == {7}
PaidAmounts == {9}

(***************************************************************************)
(* Text and dates.                                                         *)
(***************************************************************************)
Digit(n) == 48 + n
Hyphen == 45

TwoDigits(n) == << Digit((n \div 10) % 10), Digit(n % 10) >>
FourDigits(n) == << Digit((n \div 1000) % 10), Digit((n \div 100) % 10) >> \o TwoDigits(n)

\* str(datetime.date): YYYY-MM-DD
DateStr(date) == FourDigits(date.y) \o <<Hyphen>> \o TwoDigits(date.m) \o <<Hyphen>> \o TwoDigits(date.d)

\* datetime.date.strftime("%Y-%m")
YearMonthStr(y, m) == FourDigits(y) \o <<Hyphen>> \o TwoDigits(m)

IsDigit(c) == c >= 48 /\ c <= 57
DigitsValue(t, from, to) ==
    LET F[i \in (from - 1)..to] == IF i < from THEN 0 ELSE 10 * F[i - 1] + (t[i] - 48)
    IN  F[to]

IsLeap(y) == (y % 4 = 0 /\ y % 100 # 0) \/ y % 400 = 0
DaysInMonth(y, m) ==
    IF m = 2 THEN (IF IsLeap(y) THEN 29 ELSE 28)
    ELSE IF m \in {4, 6, 9, 11} THEN 30 ELSE 31

\* SQLite's strftime('%Y-%m', t) on a TEXT value: NULL unless t reads as
\* YYYY-MM-DD with month 1..12 and day 1..31; the date is turned into a day
\* number and back, so a day past the end of its month lands in the next month.
SqlNull == <<>>
StrftimeYm(t) ==
    IF ~( Len(t) = 10 /\ t[5] = Hyphen /\ t[8] = Hyphen
          /\ \A i \in {1, 2, 3, 4, 6, 7, 9, 10} : IsDigit(t[i]) )
    THEN SqlNull
    ELSE LET y == DigitsValue(t, 1, 4)
             m == DigitsValue(t, 6, 7)
             d == DigitsValue(t, 9, 10)
         IN  IF m < 1 \/ m > 12 \/ d < 1 \/ d > 31 THEN SqlNull
             ELSE IF d <= DaysInMonth(y, m) THEN YearMonthStr(y, m)
             ELSE YearMonthStr(y, m + 1)

(***************************************************************************)
(* MilkDatabase.  A connection sees its own uncommitted work ("work");     *)
(* only what commit() wrote ("durable") is left in the file when the run   *)
(* ends and the connection is dropped.                                     *)
(***************************************************************************)
Range(f) == { f[i] : i \in DOMAIN f }
Max(S) == CHOOSE x \in S : \A y \in S : y <= x

connect(db) == [durable |-> db, work |-> db]
commit(c) == [c EXCEPT !.durable = c.work]

\* create_table recreating the table on every start (DROP TABLE, then CREATE)
create_table_Recreate(c) == commit([c EXCEPT !.work.exists = TRUE, !.work.rows = <<>>])

\* CREATE TABLE IF NOT EXISTS entries (...); commit
create_table(c) == commit([c EXCEPT !.work.exists = TRUE])

\* MilkDatabase.__init__
MilkDatabase(db) == create_table(connect(db))

\* NextRowid without the increment: the largest rowid is handed out again
NextRowid_NoIncrement(db) == Max({db.seq} \cup { r[1] : r \in Range(db.rows) })

\* id INTEGER PRIMARY KEY AUTOINCREMENT: one more than the largest rowid the
\* table ever held, which SQLite keeps in sqlite_sequence
NextRowid(db) == Max({db.seq} \cup { r[1] : r \in Range(db.rows) }) + 1

\* the 13 bound parameters of the INSERT, in the order of its column list
InsertParams(e) ==
    << e.customer_name, e.date_start, e.date_end,
       e.morning_mound, e.morning_sair, e.morning_rate,
       e.evening_mound, e.evening_sair, e.evening_rate,
       e.rent, e.commission, e.bandi, e.paid_amount >>

\* INSERT INTO entries (customer_name, ..., paid_amount) VALUES (?, ..., ?)
ExecInsert(db, params) ==
    LET id == NextRowid(db)
    IN  [db EXCEPT !.rows = Append(db.rows, <<id>> \o params), !.seq = id]

\* insert_entry handing back cursor.lastrowid
insert_entry_ReturnsRowid(c, e) ==
    [conn |-> commit([c EXCEPT !.work = ExecInsert(c.work, InsertParams(e))]),
     returns |-> PyInt(NextRowid(c.work))]

\* insert_entry without conn.commit(): the row is rolled back with the connection
insert_entry_NoCommit(c, e) ==
    [conn |-> [c EXCEPT !.work = ExecInsert(c.work, InsertParams(e))],
     returns |-> PyNone]

\* insert_entry: execute the INSERT, commit, fall off the end (return None)
insert_entry(c, e) ==
    [conn |-> commit([c EXCEPT !.work = ExecInsert(c.work, InsertParams(e))]),
     returns |-> PyNone]

\* SELECT * FROM entries WHERE ...; fetchall(): a scan of the table in rowid
\* order that keeps the rows the WHERE clause matches
Select(c, matching) ==
    LET rows == c.work.rows
        Scan[k \in 0..c.work.seq] ==
            IF k = 0 THEN <<>>
            ELSE Scan[k - 1] \o SelectSeq(rows, LAMBDA r : r[1] = k /\ r \in matching)
    IN  Scan[c.work.seq]

\* the rows a connection sees
Rows(c) == Range(c.work.rows)

fetch_all(c) == Select(c, Rows(c))

\* MonthMatches filtering on date_end
MonthMatches_DateEnd(r, month) == StrftimeYm(r[4]) # SqlNull /\ StrftimeYm(r[4]) = month

\* WHERE strftime('%Y-%m', date_start) = ?   (a NULL never compares equal)
MonthMatches(r, month) == StrftimeYm(r[3]) # SqlNull /\ StrftimeYm(r[3]) = month
get_monthly_report(c, month) == Select(c, { r \in Rows(c) : MonthMatches(r, month) })

\* DateMatches taking every entry whose range covers the date; YYYY-MM-DD
\* texts order like the numbers YYYYMMDD
DateNumber(t) == DigitsValue(t, 1, 4) * 10000 + DigitsValue(t, 6, 7) * 100 + DigitsValue(t, 9, 10)
DateMatches_Range(r, date) == DateNumber(r[3]) <= DateNumber(date) /\ DateNumber(date) <= DateNumber(r[4])

\* WHERE date_start = ?
DateMatches(r, date) == r[3] = date
get_daily_report(c, date) == Select(c, { r \in Rows(c) : DateMatches(r, date) })

(***************************************************************************)
(* Exact arithmetic on the REAL values.                                    *)
(***************************************************************************)
RECURSIVE GCD(_, _)
GCD(a, b) == IF b = 0 THEN a ELSE GCD(b, a % b)

\* n / d with d > 0, reduced
Frac(n, d) == LET g == GCD(n, d) IN IF n = 0 THEN <<0, 1>> ELSE <<n \div g, d \div g>>
FracAdd(p, q) == Frac(p[1] * q[2] + q[1] * p[2], p[2] * q[2])
FracDivInt(p, k) == Frac(p[1], p[2] * k)

\* sum(...) of a list of quotients, left to right from 0
SumFrac(fs) ==
    LET S[i \in 0..Len(fs)] == IF i = 0 THEN Frac(0, 1) ELSE FracAdd(S[i - 1], fs[i])
    IN  S[Len(fs)]

\* df[column].sum()
ColumnSum(rows, col) ==
    LET S[i \in 0..Len(rows)] == IF i = 0 THEN 0 ELSE S[i - 1] + rows[i][col]
    IN  S[Len(rows)]

(***************************************************************************)
(* The views' aggregation.  Columns of a fetched row, by position:         *)
(* 1 ID, 2 Customer Name, 3 Start Date, 4 End Date, 5 Morning Mound,       *)
(* 6 Morning Sair, 7 Morning Rate, 8 Evening Mound, 9 Evening Sair,        *)
(* 10 Evening Rate, 11 Rent, 12 Commission, 13 Bandi, 14 Paid Amount.      *)
(***************************************************************************)
Columns == << "ID", "Customer Name", "Start Date", "End Date",
              "Morning Mound", "Morning Sair", "Morning Rate",
              "Evening Mound", "Evening Sair", "Evening Rate",
              "Rent", "Commission", "Bandi", "Paid Amount" >>

\* milk_qty of a row
MilkQty(r) == r[5] + r[8]
\* HasMilk without the test: every row is counted
HasMilk_Always(r) == TRUE

\* the row passes "if milk_qty > 0"
HasMilk(r) == MilkQty(r) > 0
\* mandi_rate = total_payment / milk_qty
MandiRate(r) == Frac(r[5] * r[7] + r[8] * r[10], MilkQty(r))

\* the loop over df.iterrows() that fills mandi_rates
MandiRates(rows) ==
    LET L[i \in 0..Len(rows)] ==
            IF i = 0 THEN <<>>
            ELSE IF HasMilk(rows[i]) THEN Append(L[i - 1], MandiRate(rows[i]))
            ELSE L[i - 1]
    IN  L[Len(rows)]

\* sum(mandi_rates) / len(mandi_rates) if mandi_rates else 0
AvgMandiRate(mandi_rates) ==
    IF mandi_rates # <<>> THEN FracDivInt(SumFrac(mandi_rates), Len(mandi_rates))
    ELSE Frac(0, 1)

\* Home: total_milk = total_morning + total_evening
HomeAggregates(rows) ==
    [ total_morning  |-> ColumnSum(rows, 5),
      total_evening  |-> ColumnSum(rows, 8),
      total_paid     |-> ColumnSum(rows, 14),
      total_milk     |-> ColumnSum(rows, 5) + ColumnSum(rows, 8),
      avg_mandi_rate |-> AvgMandiRate(MandiRates(rows)) ]

\* Daily Report: df["Total Milk"] = df["Morning Mound"] + df["Evening Mound"]
DailyFrame(rows) ==
    [ columns |-> Append(Columns, "Total Milk"),
      rows    |-> [i \in 1..Len(rows) |-> Append(rows[i], rows[i][5] + rows[i][8])] ]

MonthlyFrame(rows) == [columns |-> Columns, rows |-> rows]

\* Daily Report: total_milk = df["Total Milk"].sum()
DailyAggregates(rows) ==
    [ total_morning  |-> ColumnSum(rows, 5),
      total_evening  |-> ColumnSum(rows, 8),
      total_paid     |-> ColumnSum(rows, 14),
      total_milk     |-> ColumnSum(DailyFrame(rows).rows, 15),
      avg_mandi_rate |-> AvgMandiRate(MandiRates(rows)) ]

\* DailyTotals without the "if daily_data:" guard
DailyTotals_NoGuard(daily_data) == <<DailyAggregates(daily_data)>>

\* "if daily_data:" -- the aggregates are assigned only for a non-empty result
HomeTotals(daily_data) == IF daily_data # <<>> THEN <<HomeAggregates(daily_data)>> ELSE <<>>
DailyTotals(daily_data) == IF daily_data # <<>> THEN <<DailyAggregates(daily_data)>> ELSE <<>>

(***************************************************************************)
(* generate_pdf: the calls it makes on the FPDF object, in order, and      *)
(* whether encoding the pages as Latin-1 raised.                           *)
(***************************************************************************)
\* pdf.w of FPDF(): an A4 portrait page in millimetres
PageWidth == 210
TitleWidth == 200

Cell(w, txt, ln) == [op |-> "cell", w |-> w, txt |-> txt, ln |-> ln]
Ln == [op |-> "ln", w |-> Frac(0, 1), txt |-> "", ln |-> TRUE]

\* ColWidth dividing by the number of columns
ColWidth_NoExtraColumn(df) == Frac(PageWidth, Len(df.columns))

\* col_width = pdf.w / (len(df.columns) + 1)
ColWidth(df) == Frac(PageWidth, Len(df.columns) + 1)

\* for col in df.columns: pdf.cell(col_width, 10, col, border=1)
HeaderCells(df) == [j \in 1..Len(df.columns) |-> Cell(ColWidth(df), df.columns[j], FALSE)]

\* for item in df.iloc[i]: pdf.cell(col_width, 10, str(item), border=1)
RowCells(df, i) == [j \in 1..Len(df.rows[i]) |-> Cell(ColWidth(df), df.rows[i][j], FALSE)]

\* for i in range(len(df)): <cells of row i>; pdf.ln()
BodyCalls(df) ==
    LET B[i \in 0..Len(df.rows)] ==
            IF i = 0 THEN <<>> ELSE B[i - 1] \o RowCells(df, i) \o <<Ln>>
    IN  B[Len(df.rows)]

\* every code point of the text has a Latin-1 byte
Latin1(t) == \A i \in 1..Len(t) : t[i] < 256

\* pdf.output(dest='S').encode('latin-1') raises UnicodeEncodeError on a cell
\* Latin-1 cannot hold; only the customer name (column 2) is free text
EncodeRaises(df) == \E i \in 1..Len(df.rows) : ~Latin1(df.rows[i][2])

generate_pdf(df) ==
    [ calls  |-> << Cell(Frac(TitleWidth, 1), "Milk Entry Report", TRUE), Ln >>
                 \o HeaderCells(df) \o <<Ln>> \o BodyCalls(df),
      raised |-> EncodeRaises(df) ]

(***************************************************************************)
(* main(): one run per action.                                             *)
(***************************************************************************)
correct_password == "obob"

\* Rejected with the comparison turned round
Rejected_Inverted(pw) == pw = correct_password

\* "if password != correct_password: ... return"
Rejected(pw) == pw # correct_password

Db == [exists |-> tableExists, rows |-> entries, seq |-> sqlite_sequence]

\* what the run's connection committed is what the file holds afterwards
Persist(c) ==
    /\ tableExists' = c.durable.exists
    /\ entries' = c.durable.rows
    /\ sqlite_sequence' = c.durable.seq

Init ==
    /\ tableExists = FALSE
    /\ entries = <<>>
    /\ sqlite_sequence = 0
    /\ password = ""
    /\ choice = "none"
    /\ calls = <<>>
    /\ entry = <<>>
    /\ ret = <<>>
    /\ query = <<>>
    /\ result = <<>>
    /\ totals = <<>>
    /\ pdf = <<>>
    /\ message = ""

\* the password gate stops the run
MainRejected(pw) ==
    /\ Rejected(pw)
    /\ password' = pw
    /\ choice' = "none"
    /\ calls' = <<>>
    /\ entry' = <<>>
    /\ ret' = <<>>
    /\ query' = <<>>
    /\ result' = <<>>
    /\ totals' = <<>>
    /\ pdf' = <<>>
    /\ message' = "Please enter the correct password to access the app."
    /\ UNCHANGED <<tableExists, entries, sqlite_sequence>>

\* choice == "Home"
MainHome(pw, today) ==
    /\ ~Rejected(pw)
    /\ LET db == MilkDatabase(Db)
           daily_data == get_daily_report(db, DateStr(today))
       IN  /\ Persist(db)
           /\ query' = <<DateStr(today)>>
           /\ result' = daily_data
           /\ totals' = HomeTotals(daily_data)
           /\ message' = IF daily_data # <<>> THEN "" ELSE "No data found for today."
    /\ password' = pw
    /\ choice' = "Home"
    /\ calls' = <<"__init__", "create_table", "get_daily_report">>
    /\ entry' = <<>>
    /\ ret' = <<>>
    /\ pdf' = <<>>

\* choice == "Add Entry", "Save Entry" not pressed in this run
MainAddEntryForm(pw) ==
    /\ ~Rejected(pw)
    /\ Persist(MilkDatabase(Db))
    /\ password' = pw
    /\ choice' = "Add Entry"
    /\ calls' = <<"__init__", "create_table">>
    /\ entry' = <<>>
    /\ ret' = <<>>
    /\ query' = <<>>
    /\ result' = <<>>
    /\ totals' = <<>>
    /\ pdf' = <<>>
    /\ message' = ""

\* MilkEntry(customer_name, str(date_start), str(date_end), ...)
MilkEntry(customer_name, date_start, date_end, morning_mound, morning_sair, morning_rate, evening_mound, evening_sair, evening_rate, rent, commission, bandi, paid_amount) ==
    [ customer_name |-> customer_name,
      date_start    |-> date_start,
      date_end      |-> date_end,
      morning_mound |-> morning_mound,
      morning_sair  |-> morning_sair,
      morning_rate  |-> morning_rate,
      evening_mound |-> evening_mound,
      evening_sair  |-> evening_sair,
      evening_rate  |-> evening_rate,
      rent          |-> rent,
      commission    |-> commission,
      bandi         |-> bandi,
      paid_amount   |-> paid_amount ]

\* choice == "Add Entry" and st.button("Save Entry") is pressed
MainAddEntrySave(pw, e) ==
    /\ ~Rejected(pw)
    /\ Len(entries) < MaxEntries
    /\ LET db == MilkDatabase(Db)
           ins == insert_entry(db, e)
       IN  /\ Persist(ins.conn)
           /\ ret' = <<ins.returns>>
    /\ password' = pw
    /\ choice' = "Add Entry"
    /\ calls' = <<"__init__", "create_table", "insert_entry">>
    /\ entry' = <<e>>
    /\ query' = <<>>
    /\ result' = <<>>
    /\ totals' = <<>>
    /\ pdf' = <<>>
    /\ message' = "Entry added successfully!"

\* choice == "Daily Report"
MainDailyReport(pw, date) ==
    /\ ~Rejected(pw)
    /\ LET db == MilkDatabase(Db)
           daily_data == get_daily_report(db, DateStr(date))
       IN  /\ Persist(db)
           /\ query' = <<DateStr(date)>>
           /\ result' = daily_data
           /\ totals' = DailyTotals(daily_data)
           /\ pdf' = IF daily_data # <<>> THEN <<generate_pdf(DailyFrame(daily_data))>> ELSE <<>>
           /\ message' = IF daily_data # <<>> THEN "" ELSE "No data found for selected date."
    /\ password' = pw
    /\ choice' = "Daily Report"
    /\ calls' = <<"__init__", "create_table", "get_daily_report">>
    /\ entry' = <<>>
    /\ ret' = <<>>

\* choice == "Monthly Report"
MainMonthlyReport(pw, month) ==
    /\ ~Rejected(pw)
    /\ LET db == MilkDatabase(Db)
           monthly_data == get_monthly_report(db, month)
       IN  /\ Persist(db)
           /\ query' = <<month>>
           /\ result' = monthly_data
           /\ pdf' = IF monthly_data # <<>> THEN <<generate_pdf(MonthlyFrame(monthly_data))>> ELSE <<>>
           /\ message' = IF monthly_data # <<>> THEN "" ELSE "No data found for selected month."
    /\ password' = pw
    /\ choice' = "Monthly Report"
    /\ calls' = <<"__init__", "create_table", "get_monthly_report">>
    /\ entry' = <<>>
    /\ ret' = <<>>
    /\ totals' = <<>>

\* the "Enter Month (YYYY-MM)" inputs tried
Months == { YearMonthStr(2024, m) : m \in 1..3 }

\* what the Add Entry form can hold when "Save Entry" is pressed
FormEntries ==
    { MilkEntry(n, DateStr(ds), DateStr(de), mm, ms, mr, em, es, er, re, co, ba, pa) :
        n \in Names, ds \in Dates, de \in EndDates,
        mm \in MorningMounds, ms \in MorningSairs, mr \in MorningRates,
        em \in EveningMounds, es \in EveningSairs, er \in EveningRates,
        re \in Rents, co \in Commissions, ba \in Bandis, pa \in PaidAmounts }

Next ==
    \/ \E pw \in Passwords : MainRejected(pw)
    \/ \E pw \in Passwords, today \in Dates : MainHome(pw, today)
    \/ \E pw \in Passwords : MainAddEntryForm(pw)
    \/ \E pw \in Passwords, e \in FormEntries : MainAddEntrySave(pw, e)
    \/ \E pw \in Passwords, date \in Dates : MainDailyReport(pw, date)
    \/ \E pw \in Passwords, month \in Months : MainMonthlyReport(pw, month)

Spec == Init /\ [][Next]_vars

(***************************************************************************)
(* Properties.                                                             *)
(***************************************************************************)
Ids(rows) == { r[1] : r \in Range(rows) }
DateStartIs(d) == { r \in Range(entries) : r[3] = d }
\* the entries whose date_start text begins with the seven characters of m
DateStartIn(m) == { r \in Range(entries) : SubSeq(r[3], 1, 7) = m }

\* C1: get_daily_report(d) returns exactly the stored entries whose date_start
\* is d -- each of them once, and no entry with another date_start, whatever
\* range it spans.
C1_DailyExact ==
    choice \in {"Home", "Daily Report"} =>
        /\ Range(result) = DateStartIs(query[1])
        /\ Len(result) = Cardinality(DateStartIs(query[1]))

\* a daily fetch that returned an entry and left out a stored entry whose
\* range covers the date asked for
C1_Witness ==
    /\ choice = "Daily Report"
    /\ result # <<>>
    /\ \E r \in Range(entries) :
          /\ r \notin Range(result)
          /\ DateNumber(r[3]) < DateNumber(query[1])
          /\ DateNumber(query[1]) < DateNumber(r[4])

\* C2: get_monthly_report(m), m of the form YYYY-MM, returns exactly the stored
\* entries whose date_start begins with m, each once, whatever their date_end.
C2_MonthlyExact ==
    choice = "Monthly Report" =>
        /\ Range(result) = DateStartIn(query[1])
        /\ Len(result) = Cardinality(DateStartIn(query[1]))

\* a monthly fetch that returned an entry ending in a later month and left out
\* a stored entry of an earlier month that ends after the month asked for
C2_Witness ==
    /\ choice = "Monthly Report"
    /\ \E r \in Range(result) : SubSeq(r[4], 1, 7) # query[1]
    /\ \E r \in Range(entries) : r \notin Range(result)

\* C3: stored ids are pairwise distinct and grow with the order of insertion,
\* and none exceeds the largest id ever assigned, so no id is assigned twice.
C3_IdsIncrease ==
    /\ \A i, j \in 1..Len(entries) : i < j => entries[i][1] < entries[j][1]
    /\ \A i \in 1..Len(entries) : entries[i][1] >= 1 /\ entries[i][1] <= sqlite_sequence

C3_Witness == Len(entries) >= 2 /\ entries[1][1] < entries[2][1]

\* one run keeps the stored rows as they are and appends at most the one row
\* of its insert_entry call
C4_Step ==
    /\ Len(entries') >= Len(entries)
    /\ SubSeq(entries', 1, Len(entries)) = entries
    /\ Len(entries') = Len(entries) + (IF "insert_entry" \in Range(calls') THEN 1 ELSE 0)

\* C4: no run removes or changes a stored entry; a run that calls
\* insert_entry adds exactly one entry at the end, any other run adds none.
C4_AppendOnly == [][C4_Step]_vars

\* an entry stored earlier is still there after an insert and a report
C4_Witness == Len(entries) >= 2 /\ choice = "Monthly Report" /\ result # <<>>

\* rows of the last result with morning_mound + evening_mound > 0
Qualifying == { i \in 1..Len(result) : result[i][5] + result[i][8] > 0 }
Qty(i) == result[i][5] + result[i][8]
Payment(i) == result[i][5] * result[i][7] + result[i][8] * result[i][10]

RECURSIVE QtyProduct(_)
QtyProduct(S) ==
    IF S = {} THEN 1 ELSE LET i == CHOOSE x \in S : TRUE IN Qty(i) * QtyProduct(S \ {i})

\* the sum over i in S of payment_i * (product of the other qualifying quantities)
RECURSIVE RateNumerator(_)
RateNumerator(S) ==
    IF S = {} THEN 0
    ELSE LET i == CHOOSE x \in S : TRUE
         IN  Payment(i) * QtyProduct(Qualifying \ {i}) + RateNumerator(S \ {i})

\* C5: the avg_mandi_rate a view computes is the plain mean of the per-entry
\* rates payment/quantity over the entries with positive quantity, and 0 when
\* there is none.  With D the product of the qualifying quantities, the sum
\* of the rates is (sum over i of payment_i * D / quantity_i) / D.
C5_MeanOfRates ==
    totals # <<>> =>
        LET avg == totals[1].avg_mandi_rate
            D == QtyProduct(Qualifying)
            N == RateNumerator(Qualifying)
        IN  IF Qualifying = {} THEN avg[1] = 0
            ELSE avg[1] * Cardinality(Qualifying) * D = N * avg[2]

\* rates 10 and 20 average 15, where the ratio of the sums is 100/6
C5_Witness ==
    /\ totals # <<>>
    /\ Len(result) = 2
    /\ { MandiRate(result[i]) : i \in 1..2 } = { <<10, 1>>, <<20, 1>> }
    /\ totals[1].avg_mandi_rate = <<15, 1>>
    /\ totals[1].total_milk = 6

EmptyDay == choice \in {"Home", "Daily Report"} /\ result = <<>>

Saved == entry # <<>>
LastRow == entries[Len(entries)]

\* C7 as claimed: insert_entry returns the id the new entry is stored under.
C7_ReturnsId == Saved => (ret # <<>> /\ ret[1].type = "int" /\ ret[1].value = LastRow[1])

\* a run that saves an entry
C7_Step ==
    Saved' =>
        /\ Len(entries') = Len(entries) + 1
        /\ entries'[Len(entries')][1] = Max({0} \cup Ids(entries)) + 1
        /\ ret' = <<PyNone>>

\* C7, amended: insert_entry appends the record under the next integer id
\* (one more than the largest id stored before) and returns None.
C7_NextIdReturnsNone == [][C7_Step]_vars

\* a second insert: the next id is 2
C7_Witness == Saved /\ Len(entries) = 2 /\ LastRow[1] = 2 /\ ret = <<PyNone>>

\* C8: once insert_entry has returned, a daily fetch on a new connection for
\* the entry's date_start holds a record whose 13 fields after the id are the
\* entry's values in field order, and it is the only record when no other
\* stored entry has that date_start.
C8_RoundTrip ==
    Saved =>
        LET e == entry[1]
            rows == get_daily_report(connect(Db), e.date_start)
        IN  /\ \E i \in 1..Len(rows) :
                  /\ Len(rows[i]) = 14
                  /\ rows[i][2] = e.customer_name
                  /\ rows[i][3] = e.date_start
                  /\ rows[i][4] = e.date_end
                  /\ rows[i][5] = e.morning_mound
                  /\ rows[i][6] = e.morning_sair
                  /\ rows[i][7] = e.morning_rate
                  /\ rows[i][8] = e.evening_mound
                  /\ rows[i][9] = e.evening_sair
                  /\ rows[i][10] = e.evening_rate
                  /\ rows[i][11] = e.rent
                  /\ rows[i][12] = e.commission
                  /\ rows[i][13] = e.bandi
                  /\ rows[i][14] = e.paid_amount
            /\ (Cardinality({ i \in 1..Len(entries) : entries[i][3] = e.date_start }) = 1
                    => Len(rows) = 1)

\* an entry saved next to an entry of another date
C8_Witness ==
    /\ Saved
    /\ Len(entries) = 2
    /\ entries[1][3] # entry[1].date_start
    /\ Len(get_daily_report(connect(Db), entry[1].date_start)) = 1

\* the frame the last run exported
Exported == IF choice = "Daily Report" THEN DailyFrame(result) ELSE MonthlyFrame(result)

\* C9: for N rows and C columns generate_pdf emits, after the title, N+1 table
\* rows each closed by ln(): the header row with the C column names, then one
\* row per entry in input order with its C items, every cell page_width/(C+1)
\* wide.
C9_Table ==
    pdf # <<>> =>
        LET df == Exported
            N == Len(df.rows)
            C == Len(df.columns)
            t == SubSeq(pdf[1].calls, 3, Len(pdf[1].calls))
        IN  /\ Len(t) = (N + 1) * (C + 1)
            /\ \A k \in 1..Len(t) : (t[k].op = "ln") <=> (k % (C + 1) = 0)
            /\ \A k \in 1..Len(t) :
                  t[k].op = "cell" => t[k].w[1] * (C + 1) = PageWidth * t[k].w[2]
            /\ \A j \in 1..C : t[j].txt = df.columns[j]
            /\ \A i \in 1..N : \A j \in 1..C :
                  /\ Len(df.rows[i]) = C
                  /\ t[i * (C + 1) + j].txt = df.rows[i][j]

\* an export of two entries with the 15 columns of the daily report
C9_Witness ==
    /\ pdf # <<>>
    /\ choice = "Daily Report"
    /\ Len(result) = 2
    /\ Len(Exported.columns) = 15

\* a run whose password is not the configured one
C10_Step ==
    password' # correct_password =>
        /\ UNCHANGED <<tableExists, entries, sqlite_sequence>>
        /\ calls' = <<>>
        /\ entry' = <<>>
        /\ query' = <<>>
        /\ result' = <<>>

\* C10: a run with a password other than the configured one opens no
\* database, calls no insert and no fetch, and leaves the store as it was.
C10_GateFirst == [][C10_Step]_vars

\* a rejected run after entries were stored
C10_Witness ==
    /\ password # correct_password
    /\ message = "Please enter the correct password to access the app."
    /\ entries # <<>>

====
